---- MODULE Spec2Model ----
(***************************************************************************)
(* noBG backend (src/backend/app.py): the three background-removal         *)
(* variants, the shared morphological cleanup, the GrabCut / ellipse       *)
(* fallback of the edge-detect variant, and the two HTTP endpoints.        *)
(*                                                                         *)
(* Representation.  A pixel is <<x, y>>, 0 <= x < w, 0 <= y < h.  An image *)
(* is a record [w, h, px] with px a function from its pixels to channel    *)
(* tuples (<<l>>, <<r,g,b>> or <<r,g,b,a>>).  A mask is the set of its     *)
(* pixels that hold 255; every other pixel of the mask holds 0.            *)
(***************************************************************************)
EXTENDS Integers, Sequences, FiniteSets, TLC

VARIABLES
    image,      \* the PIL image handed to a variant
    threshold,  \* the threshold handed to a variant
    pc,         \* position of the running specification
    method,     \* the variant that ran ("none" before)
    cmask,      \* edge-detect: mask after contour fill and cleanup (line 66)
    escalated,  \* edge-detect: the branch of line 69 was taken
    refine,     \* edge-detect: "none", "grabcut" (line 82) or "ellipse" (line 87)
    mask,       \* the mask the variant (or the cleanup) ended with
    out,        \* the variant's outcome: an RGBA image or a raised error
    ksize,      \* cleanup runs: side of the structuring element
    orig,       \* cleanup runs: the mask before the first cleanup
    prev,       \* cleanup runs: the mask before the latest cleanup
    passes,     \* cleanup runs: number of cleanups applied
    req,        \* endpoint runs: the request (files, form fields)
    idx,        \* endpoint runs: number of files of the batch already handled
    results,    \* endpoint runs: the batch's result records
    resp        \* endpoint runs: the response sent ("none" before)

vars == <<image, threshold, pc, method, cmask, escalated, refine, mask, out,
          ksize, orig, prev, passes, req, idx, results, resp>>

coreVars  == <<image, threshold, method, cmask, escalated, refine, out>>
morphVars == <<ksize, orig, prev, passes>>
apiVars   == <<req, idx, results, resp>>

(***************************************************************************)
(* Pixels and masks                                                        *)
(***************************************************************************)
Pixels(w, h) == (0 .. w - 1) \X (0 .. h - 1)

Min2(a, b) == IF a < b THEN a ELSE b
Max2(a, b) == IF a > b THEN a ELSE b

\* The pixels of the image under a k x k all-ones kernel anchored at its
\* centre on p.  Pixels outside the image are left out: cv2.morphologyEx uses
\* BORDER_CONSTANT with morphologyDefaultBorderValue(), which never wins the
\* max of a dilation nor the min of an erosion.
Nbhd(p, k, w, h) ==
    LET r == (k - 1) \div 2
    IN  (Max2(0, p[1] - r) .. Min2(w - 1, p[1] + r))
            \X (Max2(0, p[2] - r) .. Min2(h - 1, p[2] + r))

Dilate(S, k, w, h) == {q : q \in UNION {Nbhd(p, k, w, h) : p \in S}}

\* Fault model of Erode: pixels outside the image count as 0.
ErodeZeroBorder(S, k, w, h) ==
    LET r == (k - 1) \div 2
    IN  {p \in S : /\ Nbhd(p, k, w, h) \subseteq S
                   /\ p[1] - r >= 0 /\ p[1] + r <= w - 1
                   /\ p[2] - r >= 0 /\ p[2] + r <= h - 1}

Erode(S, k, w, h) == {p \in S : Nbhd(p, k, w, h) \subseteq S}

MorphClose(S, k, w, h) == Erode(Dilate(S, k, w, h), k, w, h)

MorphOpen(S, k, w, h) == Dilate(Erode(S, k, w, h), k, w, h)

\* Close, then open, with the same kernel.
Cleanup(S, k, w, h) == MorphOpen(MorphClose(S, k, w, h), k, w, h)

Rect(x0, y0, x1, y1) == (x0 .. x1) \X (y0 .. y1)

(***************************************************************************)
(* Cleanup runs: a solid rectangle cleaned twice                           *)
(***************************************************************************)
MorphSide == 10

KernelSizes == {3, 5}

NoImage == [w |-> 0, h |-> 0, px |-> << >>]
NoReq == [endpoint |-> "none"]

CoreIdle ==
    /\ image = NoImage /\ threshold = 50 /\ method = "none" /\ cmask = {}
    /\ escalated = FALSE /\ refine = "none" /\ out = [kind |-> "none"]

ApiIdle == req = NoReq /\ idx = 0 /\ results = << >> /\ resp = [kind |-> "none"]

MorphIdle == ksize = 3 /\ orig = {} /\ prev = {} /\ passes = 0

\* The rectangle is larger than the kernel in both dimensions.
InitMorph ==
    /\ CoreIdle /\ ApiIdle
    /\ pc = "morph"
    /\ \E k \in KernelSizes, x0, x1 \in 0 .. MorphSide - 1, y0, y1 \in 0 .. MorphSide - 1 :
          /\ x1 - x0 + 1 > k /\ y1 - y0 + 1 > k
          /\ ksize = k
          /\ orig = Rect(x0, y0, x1, y1)
    /\ mask = orig /\ prev = orig /\ passes = 0

MaxPasses == 2

ApplyCleanup ==
    /\ pc = "morph" /\ passes < MaxPasses
    /\ prev' = mask
    /\ mask' = Cleanup(mask, ksize, MorphSide, MorphSide)
    /\ passes' = passes + 1
    /\ UNCHANGED <<coreVars, apiVars, ksize, orig, pc>>

NextMorph == ApplyCleanup

SpecMorph == InitMorph /\ [][NextMorph]_vars

\* Gap between the rectangle and the image border, per side.
Gaps(S) ==
    LET xs == {p[1] : p \in S}  ys == {p[2] : p \in S}
        lo(T) == CHOOSE a \in T : \A b \in T : a <= b
        hi(T) == CHOOSE a \in T : \A b \in T : a >= b
    IN  {lo(xs), MorphSide - 1 - hi(xs), lo(ys), MorphSide - 1 - hi(ys)}

\* C9 (as claimed): cleaning a solid rectangle larger than the kernel, at any
\* position, leaves it unchanged, the first time and the second time.
C9_AnyPosition == passes >= 1 => mask = orig

\* C9 (amended): when every side of the rectangle either lies on the image
\* border or is more than (k-1)/2 pixels away from it, the cleanup leaves the
\* mask unchanged both times; and for every rectangle the second cleanup
\* leaves the result of the first unchanged.
C9_Idempotent ==
    /\ (passes >= 1 /\ \A g \in Gaps(orig) : g = 0 \/ g > (ksize - 1) \div 2)
          => mask = orig
    /\ passes = 2 => mask = prev

\* A rectangle on the border and one clear of it, both cleaned twice.
C9_Witness ==
    /\ passes = 2 /\ ksize = 5 /\ mask = orig
    /\ 0 \in Gaps(orig) /\ \E g \in Gaps(orig) : g > 2

(***************************************************************************)
(* Colour conversions                                                      *)
(***************************************************************************)
\* PIL image.convert('RGB'): an L pixel is repeated on the three channels,
\* an RGBA pixel loses its alpha, an RGB pixel is kept.
ConvertRGB(img) ==
    [w |-> img.w, h |-> img.h,
     px |-> [p \in Pixels(img.w, img.h) |->
                LET c == img.px[p]
                IN  IF Len(c) = 1 THEN <<c[1], c[1], c[1]>>
                    ELSE <<c[1], c[2], c[3]>>]]

\* cv2.COLOR_RGB2BGR: the channel order is reversed.
RGB2BGR(c) == <<c[3], c[2], c[1]>>

\* cv2.COLOR_BGR2GRAY on 8-bit data: fixed-point luma, 14 fractional bits.
BGR2GRAY(c) == (c[1] * 1868 + c[2] * 9617 + c[3] * 4899 + 8192) \div 16384

\* cv2.COLOR_RGB2GRAY: the same weights, read in RGB order.
RGB2GRAY(c) == (c[1] * 4899 + c[2] * 9617 + c[3] * 1868 + 8192) \div 16384

\* Fault model of BGR2RGBA: alpha is added without swapping B and R.
BGR2BGRA(c) == <<c[1], c[2], c[3], 255>>

\* cv2.COLOR_BGR2RGBA: the channel order is reversed and alpha 255 is added.
BGR2RGBA(c) == <<c[3], c[2], c[1], 255>>

Alpha(S, p) == IF p \in S THEN 255 ELSE 0

(***************************************************************************)
(* Edge-detect variant                                                     *)
(***************************************************************************)
LowThresh(t)  == t \div 2            \* int(threshold * 0.5)
HighThresh(t) == (3 * t) \div 2      \* int(threshold * 1.5)

\* What cv2.GaussianBlur (5x5) followed by cv2.Canny (3x3 Sobel, L1 norm)
\* can mark at all: the gradient at p reads the grey values within 3 pixels
\* of p, and is at most 8 times their spread; a pixel is an edge only if its
\* gradient exceeds the low threshold and a connected one the high threshold.
Spread(gray, p, w, h) ==
    LET vals == {gray[q] : q \in Nbhd(p, 7, w, h)}
    IN  {a - b : a \in vals, b \in vals}

EdgeCandidates(gray, w, h, t) ==
    {p \in Pixels(w, h) : \E d \in Spread(gray, p, w, h) : 8 * d > LowThresh(t)}

StrongPossible(gray, w, h, t) ==
    \E p \in Pixels(w, h) : \E d \in Spread(gray, p, w, h) : 8 * d > HighThresh(t)

N4(p, w, h) ==
    {q \in Nbhd(p, 3, w, h) : (q[1] = p[1] /\ q[2] # p[2]) \/ (q[1] # p[1] /\ q[2] = p[2])}

\* Pixels with a 4-neighbour of another grey value: the outline of the
\* objects, which is what the detector returns on a clean image.
Outline(gray, w, h) ==
    {p \in Pixels(w, h) : \E q \in N4(p, w, h) : gray[q] # gray[p]}

\* The edge maps cv2.Canny may return: the detector is a library routine and
\* its result is a choice among the maps its inputs allow.  Here: no edge,
\* the outline of the objects, or one pixel of that outline.
EdgeMaps(gray, w, h, t) ==
    IF ~StrongPossible(gray, w, h, t) THEN {{}}
    ELSE LET cand == EdgeCandidates(gray, w, h, t)
             line == {p \in Outline(gray, w, h) : p \in cand}
         IN  {{}, line} \cup {{p} : p \in line}

\* Background pixels of the region B joined to the seeds through background
\* pixels of B (4-connectivity: the components themselves are 8-connected).
RECURSIVE Flood(_, _, _, _, _, _)
Flood(front, seen, S, B, w, h) ==
    IF front = {} THEN seen
    ELSE LET around == {q : q \in UNION {N4(p, w, h) : p \in front}}
             nxt    == {q \in around : q \in B /\ q \notin S /\ q \notin seen}
         IN  Flood(nxt, {q : q \in seen \cup nxt}, S, B, w, h)

OnBorder(p, w, h) == p[1] = 0 \/ p[2] = 0 \/ p[1] = w - 1 \/ p[2] = h - 1

Least(T) == CHOOSE a \in T : \A b \in T : a <= b
Most(T)  == CHOOSE a \in T : \A b \in T : a >= b

\* cv2.findContours(RETR_EXTERNAL) then cv2.drawContours(-1, 255, FILLED):
\* every component is drawn with the holes it encloses filled.  A hole is a
\* set of background pixels not joined to the image border; every pixel
\* outside the bounding box of S is joined to it, so the search runs in the
\* bounding box widened by one pixel.
FillContours(S, w, h) ==
    IF S = {} THEN {}
    ELSE LET xs   == {p[1] : p \in S}
             ys   == {p[2] : p \in S}
             box  == Rect(Least(xs), Least(ys), Most(xs), Most(ys))
             B    == {p : p \in Rect(Max2(0, Least(xs) - 1), Max2(0, Least(ys) - 1),
                                     Min2(w - 1, Most(xs) + 1), Min2(h - 1, Most(ys) + 1))}
             seed == {p \in B : p \notin S /\ (p \notin box \/ OnBorder(p, w, h))}
             outside == Flood(seed, seed, S, B, w, h)
         IN  {p \in B : p \notin outside}

\* Lines 50-66: dilate twice with 3x3, fill the external contours, and when
\* there is any contour clean with a 5x5 kernel.
ContourMask(edges, w, h) ==
    LET dilated == Dilate(Dilate(edges, 3, w, h), 3, w, h)
    IN  IF dilated = {} THEN {}
        ELSE Cleanup(FillContours(dilated, w, h), 5, w, h)

\* Line 69: np.sum(mask) < mask.size * 0.01.  np.sum adds the VALUES of the
\* mask, 255 for each pixel that is set.
MostlyEmpty(S, w, h) == 255 * Cardinality(S) * 100 < w * h

\* Line 77: int(min(h, w) * 0.05).
Margin(w, h) == (Min2(h, w) * 5) \div 100

\* Line 78: rect = (margin, margin, w - 2*margin, h - 2*margin), x, y, width, height.
GrabRect(w, h) ==
    LET m == Margin(w, h) IN Rect(m, m, m + (w - 2 * m) - 1, m + (h - 2 * m) - 1)

\* The label maps cv2.grabCut(..., 5, GC_INIT_WITH_RECT) may leave in mask:
\* a pixel outside the rectangle is 0 (sure background), a pixel inside is 2
\* (probable background) or 3 (probable foreground).  The partition is the min-cut's; here a choice among: nothing
\* kept, everything of the rectangle kept, the centre pixel kept.
GrabCutLabels(w, h) ==
    LET R   == GrabRect(w, h)
        fgs == {{}, R, {p \in R : p[1] = w \div 2 /\ p[2] = h \div 2}}
    IN  {[p \in Pixels(w, h) |->
            IF p \notin R THEN 0 ELSE IF p \in F THEN 3 ELSE 2] : F \in fgs}

\* Lines 81-83: cv2.grabCut either raises or fills the label map.  When the
\* rectangle covers the whole image (margin 0: min(h, w) < 20) there is no
\* background sample to build the background model from, and it raises.
GrabCutOutcomes(w, h) ==
    {[ok |-> FALSE]}
        \cup (IF \A p \in Pixels(w, h) : p \in GrabRect(w, h) THEN {}
              ELSE {[ok |-> TRUE, labels |-> l] : l \in GrabCutLabels(w, h)})

\* Line 82: np.where((mask == 2) | (mask == 0), 0, 255).
Binarize(labels, w, h) ==
    {p \in Pixels(w, h) : ~(labels[p] = 2 \/ labels[p] = 0)}

\* Line 87: cv2.ellipse(mask, (w//2, h//2), (w//3, h//3), 0, 0, 360, 255, -1):
\* the filled ellipse; with a zero semi-axis it is a segment or one point.
Ellipse(w, h) ==
    LET cx == w \div 2  cy == h \div 2  a == w \div 3  b == h \div 3
    IN  {p \in Pixels(w, h) :
            LET dx == p[1] - cx  dy == p[2] - cy
            IN  IF a = 0 \/ b = 0
                THEN (a = 0 => dx = 0) /\ (b = 0 => dy = 0)
                     /\ dx * dx <= a * a /\ dy * dy <= b * b
                ELSE dx * dx * b * b + dy * dy * a * a <= a * a * b * b}

\* Lines 89-94: the RGBA image with the mask as alpha.
ComposeBGR(bgr, S) ==
    [w |-> bgr.w, h |-> bgr.h,
     px |-> [p \in Pixels(bgr.w, bgr.h) |->
                LET c == BGR2RGBA(bgr.px[p])
                IN  <<c[1], c[2], c[3], Alpha(S, p)>>]]

\* Lines 141 and 178: np.dstack([img_array, mask]).
Dstack(rgb, S) ==
    [w |-> rgb.w, h |-> rgb.h,
     px |-> [p \in Pixels(rgb.w, rgb.h) |->
                <<rgb.px[p][1], rgb.px[p][2], rgb.px[p][3], Alpha(S, p)>>]]

Raised(type) == [kind |-> "error", type |-> type]
Returned(img) == [kind |-> "image", img |-> img]

\* Fault model of CvtColorRaises: an empty array converts to an empty array.
CvtColorNeverRaises(arr) == FALSE

\* cv2.cvtColor raises cv2.error on an empty array.
CvtColorRaises(arr) == arr.w = 0 \/ arr.h = 0

\* Lines 32-38: the RGB array, its BGR copy and the grey image.
BGROf(rgb) == [w |-> rgb.w, h |-> rgb.h,
               px |-> [p \in Pixels(rgb.w, rgb.h) |-> RGB2BGR(rgb.px[p])]]

GrayOfBGR(bgr) == [p \in Pixels(bgr.w, bgr.h) |-> BGR2GRAY(bgr.px[p])]

\* Fault model of EdgeDetect: the failure of cv2.grabCut is not caught.
EdgeDetectNoExcept(img, t, edges, gc) ==
    LET bgr == BGROf(ConvertRGB(img))
        w   == bgr.w
        h   == bgr.h
        cm  == ContourMask(edges, w, h)
        esc == MostlyEmpty(cm, w, h)
    IN  IF CvtColorRaises(bgr)
        THEN [cmask |-> {}, escalated |-> FALSE, refine |-> "none", mask |-> {},
              out |-> Raised("cv2.error")]
        ELSE IF esc /\ ~gc.ok
        THEN [cmask |-> cm, escalated |-> esc, refine |-> "none", mask |-> {},
              out |-> Raised("cv2.error")]
        ELSE LET m == IF esc THEN Binarize(gc.labels, w, h) ELSE cm
             IN  [cmask |-> cm, escalated |-> esc,
                  refine |-> IF esc THEN "grabcut" ELSE "none",
                  mask |-> m, out |-> Returned(ComposeBGR(bgr, m))]

\* remove_background_edge_detect, given what cv2.Canny and cv2.grabCut do.
EdgeDetect(img, t, edges, gc) ==
    LET bgr == BGROf(ConvertRGB(img))
        w   == bgr.w
        h   == bgr.h
        cm  == ContourMask(edges, w, h)
        esc == MostlyEmpty(cm, w, h)
        m   == IF ~esc THEN cm
               ELSE IF gc.ok THEN Binarize(gc.labels, w, h)
               ELSE Ellipse(w, h)
    IN  IF CvtColorRaises(bgr)
        THEN [cmask |-> {}, escalated |-> FALSE, refine |-> "none", mask |-> {},
              out |-> Raised("cv2.error")]
        ELSE [cmask |-> cm, escalated |-> esc,
              refine |-> IF ~esc THEN "none" ELSE IF gc.ok THEN "grabcut" ELSE "ellipse",
              mask |-> m, out |-> Returned(ComposeBGR(bgr, m))]

(***************************************************************************)
(* Color-key variant                                                       *)
(***************************************************************************)
\* numpy indexing of an axis of length n: -n <= i < n, else IndexError.
IndexOK(i, n) == -n <= i /\ i < n

\* The element a numpy index names: negative indices count from the end.
At(i, n) == IF i < 0 THEN i + n ELSE i

\* np.median of four values, cast to uint8: the mean of the two middle
\* values, truncated.
Median4(a, b, c, d) ==
    LET vals == <<a, b, c, d>>
        \* the k-th smallest, k in 1..4
        rank(i) == Cardinality({j \in 1 .. 4 : vals[j] < vals[i] \/ (vals[j] = vals[i] /\ j < i)}) + 1
        kth(k)  == vals[CHOOSE i \in 1 .. 4 : rank(i) = k]
    IN  (kth(2) + kth(3)) \div 2

SqDist(c, d) ==
    (c[1] - d[1]) * (c[1] - d[1]) + (c[2] - d[2]) * (c[2] - d[2])
        + (c[3] - d[3]) * (c[3] - d[3])

\* Line 130, times 100: (100 - threshold) * 2.55 + 10.
DistThreshold100(t) == (100 - t) * 255 + 1000

\* Fault model of FarFromBackground: pixels close to the background are kept.
NearBackground(c, bg, t) ==
    10000 * SqDist(c, bg) <= DistThreshold100(t) * DistThreshold100(t)

\* Lines 126-133: sqrt(sum of squares) > dist_threshold, both sides squared.
FarFromBackground(c, bg, t) ==
    10000 * SqDist(c, bg) > DistThreshold100(t) * DistThreshold100(t)

\* remove_background_color_key.
ColorKey(img, t) ==
    LET rgb == ConvertRGB(img)
        w   == rgb.w
        h   == rgb.h
    IN  IF ~(IndexOK(0, h) /\ IndexOK(0, w) /\ IndexOK(h - 1, h) /\ IndexOK(w - 1, w))
        THEN [mask |-> {}, out |-> Raised("IndexError")]
        ELSE LET tl == rgb.px[<<At(0, w), At(0, h)>>]
                 tr == rgb.px[<<At(w - 1, w), At(0, h)>>]
                 bl == rgb.px[<<At(0, w), At(h - 1, h)>>]
                 br == rgb.px[<<At(w - 1, w), At(h - 1, h)>>]
                 bg == <<Median4(tl[1], tr[1], bl[1], br[1]),
                         Median4(tl[2], tr[2], bl[2], br[2]),
                         Median4(tl[3], tr[3], bl[3], br[3])>>
                 raw == {p \in Pixels(w, h) : FarFromBackground(rgb.px[p], bg, t)}
                 m  == Cleanup(raw, 3, w, h)
             IN  [mask |-> m, out |-> Returned(Dstack(rgb, m))]

(***************************************************************************)
(* Luminance variant                                                       *)
(***************************************************************************)
\* Fault model of LumThreshold: the scale is not turned round.
LumThresholdRising(t) == (255 * t) \div 100

\* Line 167: int(255 - threshold * 2.55).
LumThreshold(t) == (25500 - 255 * t) \div 100

\* remove_background_luminance.
Luminance(img, t) ==
    LET rgb == ConvertRGB(img)
        w   == rgb.w
        h   == rgb.h
    IN  IF CvtColorRaises(rgb)
        THEN [mask |-> {}, out |-> Raised("cv2.error")]
        ELSE LET raw == {p \in Pixels(w, h) : RGB2GRAY(rgb.px[p]) < LumThreshold(t)}
                 m   == Cleanup(raw, 3, w, h)
             IN  [mask |-> m, out |-> Returned(Dstack(rgb, m))]

(***************************************************************************)
(* The variants run on their own                                           *)
(***************************************************************************)
RunEdgeDetect ==
    /\ pc = "core"
    /\ LET gray == GrayOfBGR(BGROf(ConvertRGB(image)))
       IN  \E edges \in EdgeMaps(gray, image.w, image.h, threshold),
              gc \in GrabCutOutcomes(image.w, image.h) :
               LET r == EdgeDetect(image, threshold, edges, gc)
               IN  /\ cmask' = r.cmask /\ escalated' = r.escalated
                   /\ refine' = r.refine /\ mask' = r.mask /\ out' = r.out
    /\ method' = "edge-detect"
    /\ pc' = "done"
    /\ UNCHANGED <<image, threshold, morphVars, apiVars>>

RunColorKey ==
    /\ pc = "core"
    /\ LET r == ColorKey(image, threshold)
       IN  mask' = r.mask /\ out' = r.out
    /\ method' = "color-key"
    /\ pc' = "done"
    /\ UNCHANGED <<image, threshold, cmask, escalated, refine, morphVars, apiVars>>

RunLuminance ==
    /\ pc = "core"
    /\ LET r == Luminance(image, threshold)
       IN  mask' = r.mask /\ out' = r.out
    /\ method' = "luminance"
    /\ pc' = "done"
    /\ UNCHANGED <<image, threshold, cmask, escalated, refine, morphVars, apiVars>>

(***************************************************************************)
(* Images                                                                  *)
(***************************************************************************)
White == <<255, 255, 255>>
Black == <<0, 0, 0>>
Teal  == <<10, 120, 200>>

ColourPairs == {<<White, Black>>, <<Teal, Black>>}

\* An image of background colour bg with the pixels of R in colour fg.
ObjImage(w, h, bg, fg, R) ==
    [w |-> w, h |-> h, px |-> [p \in Pixels(w, h) |-> IF p \in R THEN fg ELSE bg]]

Rects(w, h) ==
    {{}} \cup {Rect(a[1], a[2], a[3], a[4]) :
                a \in {b \in (0 .. w - 1) \X (0 .. h - 1) \X (0 .. w - 1) \X (0 .. h - 1) :
                          b[1] <= b[3] /\ b[2] <= b[4]}}

\* The same picture in mode RGBA.
AsRGBA(img) ==
    [w |-> img.w, h |-> img.h,
     px |-> [p \in Pixels(img.w, img.h) |-> img.px[p] \o <<128>>]]

IsRGB(img) == \A p \in Pixels(img.w, img.h) : Len(img.px[p]) = 3

MaxW == 3
MaxH == 2
MidSide == 11
ObjSide == 7
BigSide == 51

SmallImages ==
    UNION {UNION {{ObjImage(w, h, c[1], c[2], R) : R \in Rects(w, h), c \in ColourPairs} :
                    w \in 0 .. MaxW} : h \in 0 .. MaxH}

\* A white picture with a dark square, and a large white picture, empty or
\* with one dark pixel.
BigImages ==
    LET c == BigSide \div 2
    IN  {ObjImage(MidSide, MidSide, White, Black, Rect(2, 2, 2 + ObjSide - 1, 2 + ObjSide - 1))}
        \cup {ObjImage(BigSide, BigSide, White, Black, R) : R \in {{}, {<<c, c>>}}}

CoreImages == SmallImages \cup {AsRGBA(i) : i \in SmallImages} \cup BigImages

CoreThresholds == {0, 50, 100}

InitCore ==
    /\ ApiIdle /\ MorphIdle
    /\ pc = "core"
    /\ image \in CoreImages
    /\ threshold \in CoreThresholds
    /\ method = "none" /\ cmask = {} /\ escalated = FALSE /\ refine = "none"
    /\ mask = {} /\ out = [kind |-> "none"]

NextCore == RunEdgeDetect \/ RunColorKey \/ RunLuminance

SpecCore == InitCore /\ [][NextCore]_vars

(***************************************************************************)
(* Properties of the variants (SpecCore)                                   *)
(***************************************************************************)
EdgeDone == pc = "done" /\ method = "edge-detect" /\ out.kind = "image"

\* C1 (as claimed): the mask the edge-detect variant ends with is never
\* entirely zero.
C1_MaskNeverEmpty == EdgeDone => mask # {}

\* C2 (as claimed): the edge-detect variant escalates exactly when the number
\* of pixels at 255 in the cleaned contour mask is below 1% of the number of
\* pixels of the image.
C2_EscalatesBelowOnePercent ==
    EdgeDone => (escalated <=> Cardinality(cmask) * 100 < image.w * image.h)

\* C10: an escalated edge-detect call never ends with an error: it ends with
\* the binarized label map of the estimation, or, when the estimation
\* failed, with the filled ellipse centred at (w//2, h//2) with semi-axes
\* (w//3, h//3).
C10_FallbackNeverRaises ==
    (pc = "done" /\ method = "edge-detect" /\ escalated) =>
        /\ out.kind = "image"
        /\ refine \in {"grabcut", "ellipse"}
        /\ refine = "grabcut" =>
              \E l \in GrabCutLabels(image.w, image.h) :
                  mask = {p \in Pixels(image.w, image.h) : l[p] \in {1, 3}}
        /\ refine = "ellipse" =>
              /\ <<image.w \div 2, image.h \div 2>> \in mask
              /\ \A p \in mask :
                    LET dx == p[1] - image.w \div 2
                        dy == p[2] - image.h \div 2
                        a  == image.w \div 3
                        b  == image.h \div 3
                    IN  /\ dx * dx <= a * a /\ dy * dy <= b * b
                        /\ (a > 0 /\ b > 0) =>
                              dx * dx * b * b + dy * dy * a * a <= a * a * b * b
              /\ \A p \in Pixels(image.w, image.h) :
                    (p[1] = image.w \div 2 /\ (p[2] - image.h \div 2) * (p[2] - image.h \div 2)
                        <= (image.h \div 3) * (image.h \div 3)) => p \in mask

\* An escalated call whose estimation failed and ended with an ellipse of
\* more than one pixel.
C10_Witness ==
    /\ pc = "done" /\ method = "edge-detect" /\ escalated /\ refine = "ellipse"
    /\ out.kind = "image" /\ Cardinality(mask) > 1

\* C7: for an RGB input, the output has the input's width and height, four
\* channels, the input's R, G, B at every pixel, and the final mask (0 or
\* 255) as alpha.
C7_OutputIsInputPlusAlpha ==
    (pc = "done" /\ out.kind = "image" /\ IsRGB(image)) =>
        /\ out.img.w = image.w /\ out.img.h = image.h
        /\ DOMAIN out.img.px = Pixels(image.w, image.h)
        /\ \A p \in Pixels(image.w, image.h) :
              /\ Len(out.img.px[p]) = 4
              /\ \A i \in 1 .. 3 : out.img.px[p][i] = image.px[p][i]
              /\ out.img.px[p][4] = (IF p \in mask THEN 255 ELSE 0)

\* An edge-detect output over a coloured picture, partly opaque.
C7_Witness ==
    /\ EdgeDone /\ IsRGB(image)
    /\ \E p \in Pixels(image.w, image.h) : image.px[p] = Teal
    /\ \E p, q \in Pixels(image.w, image.h) : p \in mask /\ q \notin mask

(***************************************************************************)
(* Color-key and luminance on framed pictures (SpecKey)                    *)
(***************************************************************************)
KeySide == 8

NearWhite == <<250, 250, 250>>

\* <<corner colour, other colour>>
KeyColourPairs ==
    {<<White, Black>>, <<White, Teal>>, <<Teal, Black>>, <<Black, White>>, <<White, NearWhite>>}

\* The pixels within b pixels of the border of a w x h image.
Band(b, w, h) == {p \in Pixels(w, h) : p \notin Rect(b, b, w - 1 - b, h - 1 - b)}

Corners(w, h) == {<<0, 0>>, <<w - 1, 0>>, <<0, h - 1>>, <<w - 1, h - 1>>}

\* Square pictures with a border band of one colour around a block of
\* another, or with only the four corners in the first colour.
FramedImages ==
    UNION {{ObjImage(n, n, c[2], c[1], Band(b, n, n)) :
                b \in 1 .. (n - 1) \div 2, c \in KeyColourPairs}
           \cup {ObjImage(n, n, c[2], c[1], Corners(n, n)) : c \in KeyColourPairs} :
           n \in 3 .. KeySide}

\* White pictures with one black rectangle.
SpotImages == {ObjImage(KeySide, KeySide, White, Black, R) : R \in Rects(KeySide, KeySide)}

KeyThresholds == {0, 50, 100}

InitKey ==
    /\ ApiIdle /\ MorphIdle
    /\ pc = "core"
    /\ image \in FramedImages \cup SpotImages
    /\ threshold \in KeyThresholds
    /\ method = "none" /\ cmask = {} /\ escalated = FALSE /\ refine = "none"
    /\ mask = {} /\ out = [kind |-> "none"]

NextKey == RunColorKey \/ RunLuminance

SpecKey == InitKey /\ [][NextKey]_vars

CornerColour(img) == img.px[<<0, 0>>]

\* The pixels of the corner colour.
Keyed(img) == {p \in Pixels(img.w, img.h) : img.px[p] = CornerColour(img)}

\* The widths b >= 1 for which the picture is a band of the corner colour,
\* b pixels wide, around a non-empty block with no pixel of that colour.
BandWidths(img) ==
    {b \in 1 .. img.w : /\ Keyed(img) = Band(b, img.w, img.h)
                        /\ Keyed(img) # Pixels(img.w, img.h)}

\* The claim's picture: the four corners have one colour C, the pixels of
\* colour C are a border band or the corners alone, and every other pixel
\* differs from C by more than (100 - threshold) * 2.55 + 10.
KeyCase(img, t) ==
    /\ img.w >= 3 /\ img.h >= 3
    /\ \A p \in Corners(img.w, img.h) : img.px[p] = CornerColour(img)
    /\ BandWidths(img) # {} \/ Keyed(img) = Corners(img.w, img.h)
    /\ \A p \in Pixels(img.w, img.h) \ Keyed(img) :
          100 * 100 * SqDist(img.px[p], CornerColour(img))
              > ((100 - t) * 255 + 1000) * ((100 - t) * 255 + 1000)

KeyDone == pc = "done" /\ method = "color-key" /\ out.kind = "image"

\* C5 (as claimed): in the claim's picture every pixel off the corner colour
\* ends with alpha 255 and every pixel of the corner colour with alpha 0.
C5_InteriorOpaqueBorderClear ==
    (KeyDone /\ KeyCase(image, threshold)) =>
        \A p \in Pixels(image.w, image.h) :
            out.img.px[p][4] = (IF p \in Keyed(image) THEN 0 ELSE 255)

\* C5 (amended): the same, when the band of the corner colour is at least 2
\* pixels wide and the block inside it at least 3 pixels in each dimension.
C5_WideBand ==
    (KeyDone /\ KeyCase(image, threshold)) =>
        \A b \in BandWidths(image) :
            (b >= 2 /\ image.w - 2 * b >= 3 /\ image.h - 2 * b >= 3) =>
                \A p \in Pixels(image.w, image.h) :
                    out.img.px[p][4] = (IF p \in Keyed(image) THEN 0 ELSE 255)

\* A picture with a band 2 wide whose block came out opaque and band clear.
C5_Witness ==
    /\ KeyDone /\ KeyCase(image, threshold)
    /\ 2 \in BandWidths(image) /\ image.w - 4 >= 3
    /\ mask = Pixels(image.w, image.h) \ Keyed(image)

Luma(c) == (299 * c[1] + 587 * c[2] + 114 * c[3] + 500) \div 1000

LumDone == pc = "done" /\ method = "luminance" /\ out.kind = "image" /\ threshold = 0

\* C8 (as claimed): with threshold 0 every pixel whose luma is below 255 ends
\* with alpha 255.
C8_AllDarkerOpaque ==
    LumDone =>
        \A p \in Pixels(image.w, image.h) :
            Luma(image.px[p]) < 255 => out.img.px[p][4] = 255

\* C8 (amended): with threshold 0 a pixel ends with alpha 255 when it lies
\* under a 3x3 window (cut at the image border) all of whose pixels have a
\* luma below 255.
C8_DarkWindowsOpaque ==
    LumDone =>
        \A p \in Pixels(image.w, image.h) :
            (\E q \in Nbhd(p, 3, image.w, image.h) :
                \A u \in Nbhd(q, 3, image.w, image.h) : Luma(image.px[u]) < 255)
              => out.img.px[p][4] = 255

\* A white picture with a dark block of 3x3 or more: block opaque, rest not.
C8_Witness ==
    /\ LumDone
    /\ \E q \in Pixels(image.w, image.h) :
          /\ q[1] >= 1 /\ q[2] >= 1 /\ q[1] < image.w - 1 /\ q[2] < image.h - 1
          /\ \A u \in Nbhd(q, 3, image.w, image.h) :
                Luma(image.px[u]) < 255 /\ out.img.px[u][4] = 255
    /\ \E p \in Pixels(image.w, image.h) : out.img.px[p][4] = 0

(***************************************************************************)
(* The endpoints (SpecApi)                                                 *)
(***************************************************************************)
Num(v) == [k |-> "num", v |-> v]
NaN == [k |-> "nan"]
Inf(sgn) == [k |-> "inf", s |-> sgn]

\* What the form may hold under 'threshold': nothing, a text float() rejects,
\* or a text float() accepts (a number, nan, inf, -inf).
FormThresholds ==
    {[k |-> "missing"], [k |-> "text"], NaN, Inf(1), Inf(-1)}
        \cup {Num(v) : v \in {-10, 0, 30, 100, 150}}

\* Python's a < b on floats: false whenever one side is nan.
PyLt(a, b) ==
    CASE a.k = "nan" \/ b.k = "nan" -> FALSE
      [] a.k = "inf" /\ b.k = "inf" -> a.s < b.s
      [] a.k = "inf" -> a.s < 0
      [] b.k = "inf" -> b.s > 0
      [] OTHER -> a.v < b.v

\* Python's min(a, b) and max(a, b): the first argument unless the second is
\* strictly smaller (larger).
PyMin(a, b) == IF PyLt(b, a) THEN b ELSE a
PyMax(a, b) == IF PyLt(a, b) THEN b ELSE a

\* Fault model of RequestThreshold: the parsed value is used as it is.
RequestThresholdNoClamp(f) ==
    IF f.k = "text" THEN 50
    ELSE IF f.k = "missing" THEN 50
    ELSE IF f.k = "num" THEN f.v
    ELSE IF f.k = "inf" /\ f.s < 0 THEN 0 ELSE 100

\* Lines 211-215 and 271-275: float(form.get('threshold', 50)) clamped with
\* max(0, min(100, .)); 50 when float() raises.
RequestThreshold(f) ==
    IF f.k = "text" THEN 50
    ELSE LET parsed == IF f.k = "missing" THEN Num(50) ELSE f
         IN  PyMax(Num(0), PyMin(Num(100), parsed)).v

FormMethods == {"missing", "edge-detect", "color-key", "luminance", "bogus"}

\* Lines 217 and 277: form.get('method', 'edge-detect').
RequestMethod(m) == IF m = "missing" THEN "edge-detect" ELSE m

File(name, ok, mode, img) == [name |-> name, ok |-> ok, mode |-> mode, img |-> img]

GrayDot == [w |-> 2, h |-> 2, px |-> [p \in Pixels(2, 2) |-> IF p = <<0, 0>> THEN <<40>> ELSE <<255>>]]

\* Uploads: bytes PIL cannot decode, a picture of width 0, an RGB picture,
\* a greyscale picture.
BadFile   == File("bad.png", FALSE, "RGB", NoImage)
EmptyFile == File("empty.png", TRUE, "RGB", [w |-> 0, h |-> 2, px |-> << >>])
DotFile   == File("dot.png", TRUE, "RGB", ObjImage(3, 3, Teal, Black, {<<1, 1>>}))
GrayFile  == File("gray.png", TRUE, "L", GrayDot)

FileCatalog == {BadFile, EmptyFile, DotFile, GrayFile}

MaxFiles == 2

FileLists == UNION {[1 .. n -> FileCatalog] : n \in 0 .. MaxFiles}

Requests ==
    {[endpoint |-> "single", files |-> fs, thr |-> t, meth |-> m] :
        fs \in {<< >>} \cup {<<f>> : f \in FileCatalog \cup {[DotFile EXCEPT !.name = ""]}},
        t \in FormThresholds, m \in FormMethods}
    \cup
    {[endpoint |-> "batch", files |-> fs, thr |-> t, meth |-> m] :
        fs \in FileLists, t \in FormThresholds, m \in FormMethods}

\* Lines 224-225 and 284-285: a mode other than RGB and RGBA is converted.
Normalize(f) == IF f.mode \notin {"RGB", "RGBA"} THEN ConvertRGB(f.img) ELSE f.img

\* Lines 228-233 and 287-292: dispatch on the method, edge-detect by default.
Segment(m, img, t, edges, gc) ==
    IF m = "color-key" THEN ColorKey(img, t).out
    ELSE IF m = "luminance" THEN Luminance(img, t).out
    ELSE EdgeDetect(img, t, edges, gc).out

\* Lines 221-233 and 282-292: Image.open raises on bytes it cannot decode.
ProcessFile(f, m, t, edges, gc) ==
    IF ~f.ok THEN Raised("UnidentifiedImageError")
    ELSE Segment(m, Normalize(f), t, edges, gc)

\* The results the two library routines may give on a file.
EdgeChoices(f, t) ==
    IF ~f.ok \/ f.img.w = 0 \/ f.img.h = 0 THEN {{}}
    ELSE EdgeMaps(GrayOfBGR(BGROf(ConvertRGB(f.img))), f.img.w, f.img.h, t)

GrabChoices(f) == IF ~f.ok THEN {[ok |-> FALSE]} ELSE GrabCutOutcomes(f.img.w, f.img.h)

Reply(status, body) == [kind |-> "error", status |-> status, error |-> body]

InitApi ==
    /\ MorphIdle
    /\ pc = "recv"
    /\ req \in Requests
    /\ idx = 0 /\ results = << >> /\ resp = [kind |-> "none"]
    /\ image = NoImage /\ threshold = 50 /\ method = "none" /\ cmask = {}
    /\ escalated = FALSE /\ refine = "none" /\ out = [kind |-> "none"] /\ mask = {}

\* remove_background.
HandleSingle ==
    /\ pc = "recv" /\ req.endpoint = "single"
    /\ pc' = "sent"
    /\ IF req.files = << >>
       THEN /\ resp' = Reply(400, "No image file provided")
            /\ UNCHANGED <<threshold, method>>
       ELSE IF req.files[1].name = ""
       THEN /\ resp' = Reply(400, "No file selected")
            /\ UNCHANGED <<threshold, method>>
       ELSE /\ threshold' = RequestThreshold(req.thr)
            /\ method' = RequestMethod(req.meth)
            /\ \E edges \in EdgeChoices(req.files[1], threshold'),
                  gc \in GrabChoices(req.files[1]) :
                   LET r == ProcessFile(req.files[1], method', threshold', edges, gc)
                   IN  resp' = IF r.kind = "error" THEN Reply(500, r.type)
                               ELSE [kind |-> "png", status |-> 200, body |-> r.img]
    /\ UNCHANGED <<image, cmask, escalated, refine, mask, out, morphVars, req, idx, results>>

\* batch_remove_background, lines 263-279: the checks and the parameters.
BatchBegin ==
    /\ pc = "recv" /\ req.endpoint = "batch"
    /\ IF req.files = << >>
       THEN /\ resp' = Reply(400, "No image files provided")
            /\ pc' = "sent"
            /\ UNCHANGED <<threshold, method>>
       ELSE /\ threshold' = RequestThreshold(req.thr)
            /\ method' = RequestMethod(req.meth)
            /\ pc' = "loop"
            /\ UNCHANGED resp
    /\ UNCHANGED <<image, cmask, escalated, refine, mask, out, morphVars, req, idx, results>>

Success(i, f, img) ==
    [index |-> i, filename |-> f.name, status |-> "success", data |-> [png |-> img]]
Failure(i, f, msg) ==
    [index |-> i, filename |-> f.name, status |-> "error", error |-> msg]

\* Fault model of BatchItem: the exception of one file ends the request.
BatchItemNoCatch ==
    /\ pc = "loop" /\ idx < Len(req.files)
    /\ \E edges \in EdgeChoices(req.files[idx + 1], threshold),
          gc \in GrabChoices(req.files[idx + 1]) :
           LET f == req.files[idx + 1]
               r == ProcessFile(f, method, threshold, edges, gc)
           IN  IF r.kind = "error"
               THEN /\ resp' = Reply(500, r.type) /\ pc' = "sent"
                    /\ UNCHANGED <<results, idx>>
               ELSE /\ results' = Append(results, Success(idx, f, r.img))
                    /\ idx' = idx + 1
                    /\ UNCHANGED <<resp, pc>>
    /\ UNCHANGED <<coreVars, mask, morphVars, req>>

\* batch_remove_background, lines 280-315: one turn of the loop.
BatchItem ==
    /\ pc = "loop" /\ idx < Len(req.files)
    /\ \E edges \in EdgeChoices(req.files[idx + 1], threshold),
          gc \in GrabChoices(req.files[idx + 1]) :
           LET f == req.files[idx + 1]
               r == ProcessFile(f, method, threshold, edges, gc)
           IN  results' = Append(results,
                                 IF r.kind = "error" THEN Failure(idx, f, r.type)
                                 ELSE Success(idx, f, r.img))
    /\ idx' = idx + 1
    /\ UNCHANGED <<coreVars, mask, morphVars, req, resp, pc>>

\* batch_remove_background, line 317.
BatchEnd ==
    /\ pc = "loop" /\ idx = Len(req.files)
    /\ resp' = [kind |-> "results", status |-> 200, results |-> results]
    /\ pc' = "sent"
    /\ UNCHANGED <<coreVars, mask, morphVars, req, idx, results>>

NextApi == HandleSingle \/ BatchBegin \/ BatchItem \/ BatchEnd

SpecApi == InitApi /\ [][NextApi]_vars

ZeroArea(f) == f.ok /\ (f.img.w = 0 \/ f.img.h = 0)
Good(f) == f.ok /\ f.img.w > 0 /\ f.img.h > 0

\* C3: a batch of n >= 1 files is answered with n records, the i-th with
\* index i and the i-th file's name, each 'success' with data or 'error' with
\* a message; a file that fails gets an 'error' record and every file that
\* can be processed gets a 'success' record, whatever came before it.
C3_BatchIsolatesFailures ==
    /\ pc = "loop" => Len(results) = idx /\ idx <= Len(req.files)
    /\ (pc = "sent" /\ req.endpoint = "batch" /\ req.files # << >>) =>
          /\ resp.kind = "results"
          /\ Len(resp.results) = Len(req.files)
          /\ \A i \in 1 .. Len(req.files) :
                LET rec == resp.results[i]  f == req.files[i]
                IN  /\ rec.index = i - 1 /\ rec.filename = f.name
                    /\ rec.status \in {"success", "error"}
                    /\ rec.status = "success" <=> Good(f)
                    /\ rec.status = "success" => DOMAIN rec = {"index", "filename", "status", "data"}
                    /\ rec.status = "error" => DOMAIN rec = {"index", "filename", "status", "error"}

\* A batch whose first file failed and whose second was processed.
C3_Witness ==
    /\ pc = "sent" /\ resp.kind = "results" /\ Len(resp.results) = 2
    /\ resp.results[1].status = "error" /\ resp.results[2].status = "success"

Reached == pc = "loop" \/ (pc = "sent" /\ resp.status # 400)

\* C4: the threshold handed to a variant is in [0, 100]: a submitted number v
\* becomes max(0, min(100, v)), a missing or unparsable value becomes 50.
C4_ThresholdClamped ==
    Reached =>
        /\ threshold \in 0 .. 100
        /\ req.thr.k = "num" => threshold = Max2(0, Min2(100, req.thr.v))
        /\ req.thr.k \in {"missing", "text"} => threshold = 50

\* A request with threshold 150 whose picture was processed with 100.
C4_Witness ==
    /\ pc = "sent" /\ resp.kind \in {"png", "results"}
    /\ req.thr = Num(150) /\ threshold = 100

====
